---- MODULE Spec2Model ----
(***************************************************************************)
(* project_track: the dashboard cache of app.py (load_dashboard,           *)
(* _invalidate_cache and the route handlers that use them), the scan of    *)
(* tracker/scanner.py as far as the cache sees it (config read, external   *)
(* tool calls, snapshot), and the pure scoring function calc_progress.     *)
(*                                                                         *)
(* Spec          the request handlers running on concurrent worker threads *)
(* SpecProgress  calc_progress applied to inputs drawn from bounded sets   *)
(***************************************************************************)
EXTENDS Integers, Sequences, FiniteSets, TLC

\* ------------------------------------------------------------- bounds
\* Handler invocations in one behaviour.
MaxCalls == 2
\* cache_ttl_seconds takes the values 0..MaxTTL.
MaxTTL == 1
\* Seconds the wall clock advances in one behaviour: an age is only ever
\* compared with a ttl, so ages past the largest ttl are all alike.
MaxTicks == MaxTTL
\* Inputs of calc_progress: the age of the last commit in days (MaxDays back,
\* FutureDays ahead of the clock), commits of the last 30 days, modified and
\* untracked files, and issue totals up to 30 * MaxIssueBlocks + 29 (the scan
\* counts at most IssueCap of them).
MaxDays == 31
FutureDays == 2
MaxCommits == 15
MaxModified == 11
MaxUntracked == 1
MaxIssueBlocks == 3

\* Items of a configuration's track_overrides.
MaxOverrides == 2

\* Entries of a search pool, and the largest limit of a search.
MaxPool == 3
MaxLimit == 2

\* Repositories one scan discovers, and the midnights that pass while it runs.
MaxRepos == 2
MaxScanDays == 1
MaxInclude == 2
MaxRoots == 2

\* Flask worker threads serving requests.
Threads == {"w1", "w2"}

\* Python values: None, and the exceptions a call can end with.
None == [kind |-> "None"]
ConfigError == [kind |-> "ConfigError"]
ToolError == [kind |-> "ToolError"]
Errors == {ConfigError, ToolError}
\* The lock when no thread holds it.
Unlocked == "unlocked"

\* The config document's own include_repos list, and the repository paths an
\* add or remove request may name.
ConfigInclude == {"/cfg"}
Paths == {"/new"}
\* External tool calls (run_cmd) one scan makes: the scan runs its tools on
\* every repository of the include list, and the calls made on one repository
\* are taken together.
NToolCalls == Cardinality(ConfigInclude)
TRACK_OPTIONS == {"finance", "engineering", "soc_auto_design", "family"}
\* Values of the "track" field of an add-repo payload: absent (or no known
\* track), a known track.
TrackInputs == {"", "finance"}
Absent == "absent"

VARIABLES
    _cache_lock,    \* the thread holding the lock, or Unlocked
    _cache_data,    \* the cached snapshot, or None
    _cache_ts,      \* the timestamp stored with it (0 after invalidation)
    clock,          \* time.time()
    manifest,       \* repo_manifest.json: path -> Absent or the entry's track
    calls,          \* handler invocations so far
    pc,             \* each thread's position
    op,             \* the kind of side effect its handler has
    todo,           \* the steps its handler has yet to finish
    path,           \* the request's path argument
    track,          \* the request's track argument
    now,            \* load_dashboard's local now
    ttl,            \* load_dashboard's local ttl
    data,           \* the snapshot the thread's scan is building
    tool,           \* the external tool calls its scan has made
    ret,            \* what the thread's last load_dashboard call returned or raised
    sawScan,        \* the scan in flight when its load_dashboard call began (0: none)
    sawStale,       \* the dashboard cached then, if it misses a returned write (0: none)
    began,          \* the time at which its scan started (0: it is not scanning)
    call_args,      \* the arguments and locals of the scanner function under way
    call_result     \* its result

cacheVars == <<_cache_lock, _cache_data, _cache_ts>>
envVars == <<clock, manifest>>
histVars == <<calls>>
threadVars == <<pc, op, todo, path, track, now, ttl, data, tool, ret, sawScan, sawStale, began>>
fnVars == <<call_args, call_result>>
vars == <<cacheVars, envVars, histVars, threadVars, fnVars>>

Max(a, b) == IF a >= b THEN a ELSE b
Min(a, b) == IF a <= b THEN a ELSE b

\* ------------------------------------------------------- configuration
\* The config document as a read finds it: missing or unparseable, or holding
\* a cache_ttl_seconds. The document is a file anyone may rewrite between two
\* reads, so each read may find any of these.
Broken == [ok |-> FALSE, ttl |-> 0]
ConfigDocs == {Broken} \cup [ok : {TRUE}, ttl : 0..MaxTTL]

\* load_config: the RepoConfig read from the config document alone (the
\* manifest is not read), or the exception of a document that does not parse.
load_config(doc) ==
    IF doc.ok
    THEN [kind |-> "RepoConfig", include_repos |-> ConfigInclude,
          cache_ttl_seconds |-> doc.ttl]
    ELSE ConfigError

\* ------------------------------------------------------------ handlers
ReadHandlers == {"api_dashboard", "api_dashboard_refresh", "api_search",
                 "api_refresh", "api_group", "api_repo_details"}
RepoHandlers == {"api_repo_sync", "api_repo_commit", "api_repo_issue",
                 "api_repo_todo_add", "api_repo_todo_update"}
WriteHandlers == {"api_add_repo", "api_remove_repo", "api_group_sync"} \cup RepoHandlers
Handlers == ReadHandlers \cup WriteHandlers

\* What each handler does with the cache, in order: loadN is
\* load_dashboard(force=False), loadF is load_dashboard(force=True), inval is
\* _invalidate_cache(), effect is the handler's own side effect (effect_or_stop
\* when the handler returns an error as soon as the side effect fails).
Script(h) ==
    CASE h \in {"api_dashboard", "api_search", "api_group", "api_repo_details"} ->
             <<"loadN">>
      [] h \in {"api_dashboard_refresh", "api_refresh"} -> <<"loadF">>
      [] h \in {"api_add_repo", "api_remove_repo"} -> <<"effect", "inval", "loadF">>
      [] h = "api_group_sync" -> <<"loadN", "effect", "inval", "loadF">>
      [] h = "api_repo_issue" -> <<"loadN", "effect_or_stop">>
      [] h = "api_repo_todo_update" -> <<"loadN", "effect_or_stop", "inval", "loadN">>
      [] OTHER -> <<"loadN", "effect", "inval", "loadN">>

\* The kind of side effect a handler has.
Kind(h) ==
    CASE h \in ReadHandlers -> "read"
      [] h = "api_add_repo" -> "add"
      [] h = "api_remove_repo" -> "remove"
      [] OTHER -> "write"

\* The position at which the first of the steps s starts; with no step left
\* the handler builds its response.
EntryPc(s) ==
    IF s = <<>> THEN "respond"
    ELSE CASE Head(s) \in {"loadN", "loadF"} -> "ld_begin"
           [] Head(s) = "inval" -> "inv_lock"
           [] OTHER -> "effect"

\* The force argument of the load_dashboard call thread t is in.
Force(t) == Head(todo[t]) = "loadF"

\* ---------------------------------------------------------------- lock
\* A lock that excludes nobody.
CanAcquireAlways(t) == TRUE

\* with _cache_lock: a thread enters only when no thread holds the lock.
CanAcquire(t) == _cache_lock = Unlocked

\* Leaving the with block by return releases the lock.
Released(t) == Unlocked

\* A lock that an exception leaves with its holder.
HeldOnError(t) == t

\* Leaving the with block by an exception releases the lock as well.
ReleasedOnError(t) == Unlocked

\* ------------------------------------------------------ load_dashboard
\* The current step of thread t's handler is finished.
Advance(t) ==
    /\ todo' = [todo EXCEPT ![t] = Tail(todo[t])]
    /\ pc' = [pc EXCEPT ![t] = EntryPc(Tail(todo[t]))]

\* load_dashboard's frame is gone: its locals are dead.
EndLoad(t) ==
    /\ now' = [now EXCEPT ![t] = 0]
    /\ ttl' = [ttl EXCEPT ![t] = 0]
    /\ sawScan' = [sawScan EXCEPT ![t] = 0]
    /\ sawStale' = [sawStale EXCEPT ![t] = 0]
    /\ began' = [began EXCEPT ![t] = 0]
    /\ data' = [data EXCEPT ![t] = None]
    /\ tool' = [tool EXCEPT ![t] = 0]

\* load_dashboard returns v to the handler.
Return(t, v) ==
    /\ ret' = [ret EXCEPT ![t] = v]
    /\ Advance(t)
    /\ EndLoad(t)

\* load_dashboard raises e, which leaves the handler: the route (or Flask)
\* answers with an error.
Raise(t, e) ==
    /\ ret' = [ret EXCEPT ![t] = e]
    /\ pc' = [pc EXCEPT ![t] = "respond"]
    /\ todo' = [todo EXCEPT ![t] = <<>>]
    /\ EndLoad(t)

\* Positions inside scan_repositories.
ScanPcs == {"sc_tool", "sc_hung"}

\* A dashboard is an object: id tells two dashboards apart, and is that of the
\* scan that builds it. An id is free for a new scan once nothing refers to
\* the old one.
IsDashboard(v) == v.kind = "dashboard"
LiveIds ==
    {v.id : v \in {w \in {_cache_data} \cup {data[u] : u \in Threads}
                              \cup {ret[u] : u \in Threads} : IsDashboard(w)}}
        \cup {sawScan[u] : u \in Threads} \cup {sawStale[u] : u \in Threads}
FreshId ==
    CHOOSE i \in 1..(3 * Cardinality(Threads) + 2) :
        /\ i \notin LiveIds
        /\ \A j \in 1..(i - 1) : j \in LiveIds

\* The scan in flight (its id), 0 when none is.
ScanInFlight ==
    IF \E u \in Threads : pc[u] \in ScanPcs
    THEN data[CHOOSE u \in Threads : pc[u] \in ScanPcs].id
    ELSE 0

\* Whether v is a dashboard whose scan started before the side effect of a
\* write handler that has returned successfully.
MissesReturned(v) == IsDashboard(v) /\ "returned" \in v.missed

\* now = time.time(); ttl = _get_cache_ttl(). The ttl lookup reads the config
\* document outside the lock; what it finds does not depend on the moment of
\* the read (see ConfigDocs), so the two reads are one step.
LdBegin(t) ==
    /\ pc[t] = "ld_begin"
    /\ \E doc \in ConfigDocs :
         LET cfg == load_config(doc) IN
         IF cfg = ConfigError
         THEN Raise(t, ConfigError)
         ELSE /\ now' = [now EXCEPT ![t] = clock]
              /\ ttl' = [ttl EXCEPT ![t] = cfg.cache_ttl_seconds]
              /\ sawScan' = [sawScan EXCEPT ![t] = ScanInFlight]
              /\ sawStale' = [sawStale EXCEPT ![t] =
                                 IF MissesReturned(_cache_data) THEN _cache_data.id ELSE 0]
              /\ ret' = [ret EXCEPT ![t] = None]
              /\ pc' = [pc EXCEPT ![t] = "ld_lock"]
              /\ UNCHANGED <<todo, data, tool, began>>
    /\ UNCHANGED <<cacheVars, envVars, histVars, op, path, track, fnVars>>

\* with _cache_lock:
LdAcquire(t) ==
    /\ pc[t] = "ld_lock"
    /\ CanAcquire(t)
    /\ _cache_lock' = t
    /\ pc' = [pc EXCEPT ![t] = "ld_check"]
    /\ UNCHANGED <<_cache_data, _cache_ts, envVars, histVars, op, todo, path, track, now, ttl, data, tool, ret, sawScan, sawStale, began, fnVars>>

\* The freshness test with its age comparison reversed.
FreshReversed(t) ==
    /\ Head(todo[t]) # "loadF"
    /\ _cache_data # None
    /\ now[t] - _cache_ts >= ttl[t]

\* not force and _cache_data is not None and (now - _cache_ts) < ttl
Fresh(t) ==
    /\ ~Force(t)
    /\ _cache_data # None
    /\ now[t] - _cache_ts < ttl[t]

\* The test under the lock: return the cached snapshot, or call
\* scan_repositories, whose first statement is cfg = load_config(config_path).
LdCheck(t) ==
    /\ pc[t] = "ld_check"
    /\ IF Fresh(t)
       THEN /\ Return(t, _cache_data)
            /\ _cache_lock' = Released(t)
       ELSE \E doc \in ConfigDocs :
              LET cfg == load_config(doc) IN
              IF cfg = ConfigError
              THEN /\ Raise(t, ConfigError)
                   /\ _cache_lock' = ReleasedOnError(t)
              ELSE /\ data' = [data EXCEPT ![t] =
                                 [kind |-> "dashboard", id |-> FreshId, missed |-> {},
                                  include |-> cfg.include_repos]]
                   /\ began' = [began EXCEPT ![t] = clock]
                   /\ pc' = [pc EXCEPT ![t] = "sc_tool"]
                   /\ UNCHANGED <<_cache_lock, ret, todo, now, ttl, tool, sawScan, sawStale>>
    /\ UNCHANGED <<_cache_data, _cache_ts, envVars, histVars, op, path, track, fnVars>>

\* ------------------------------------------------------ external tools
\* What can become of one external process (git, find, rg, grep): it runs
\* and exits 0, it exits nonzero, its binary is not in PATH, it cannot be
\* launched for another reason (PermissionError, OSError), it never exits.
ToolOutcomes == {"ok", "nonzero", "missing", "oserror", "hang"}
Hang == [kind |-> "Hang"]

\* run_cmd: subprocess.run without a timeout; only FileNotFoundError is caught.
run_cmd(o) ==
    CASE o = "ok" -> [kind |-> "return", code |-> 0, out |-> "stdout"]
      [] o = "nonzero" -> [kind |-> "return", code |-> 1, out |-> ""]
      [] o = "missing" -> [kind |-> "return", code |-> 127, out |-> ""]
      [] o = "oserror" -> ToolError
      [] OTHER -> Hang

\* _cache_ts = now: the time read before the ttl lookup and the lock.
StoredTs(t) == now[t]

\* One external tool call of the scan in progress. After the last one
\* scan_repositories returns and load_dashboard stores and returns the
\* dashboard: _cache_data = data; _cache_ts = now; return data.
ScanTool(t) ==
    /\ pc[t] = "sc_tool"
    /\ \E o \in ToolOutcomes :
         LET r == run_cmd(o) IN
         CASE r = ToolError ->
                /\ Raise(t, ToolError)
                /\ _cache_lock' = ReleasedOnError(t)
                /\ UNCHANGED <<_cache_data, _cache_ts>>
           [] r = Hang ->
                /\ pc' = [pc EXCEPT ![t] = "sc_hung"]
                /\ UNCHANGED <<cacheVars, ret, todo, data, tool, now, ttl, sawScan, sawStale, began>>
           [] OTHER ->
                IF tool[t] + 1 < NToolCalls
                THEN /\ tool' = [tool EXCEPT ![t] = tool[t] + 1]
                     /\ UNCHANGED <<cacheVars, pc, ret, todo, data, now, ttl, sawScan, sawStale, began>>
                ELSE /\ _cache_data' = data[t]
                     /\ _cache_ts' = StoredTs(t)
                     /\ _cache_lock' = Released(t)
                     /\ Return(t, data[t])
    /\ UNCHANGED <<envVars, histVars, op, path, track, fnVars>>

\* ----------------------------------------------------- _invalidate_cache
\* with _cache_lock:
InvAcquire(t) ==
    /\ pc[t] = "inv_lock"
    /\ CanAcquire(t)
    /\ _cache_lock' = t
    /\ pc' = [pc EXCEPT ![t] = "inv_clear"]
    /\ UNCHANGED <<_cache_data, _cache_ts, envVars, histVars, op, todo, path, track, now, ttl, data, tool, ret, sawScan, sawStale, began, fnVars>>

\* _cache_data = None; _cache_ts = 0.0
InvClear(t) ==
    /\ pc[t] = "inv_clear"
    /\ _cache_data' = None
    /\ _cache_ts' = 0
    /\ _cache_lock' = Released(t)
    /\ Advance(t)
    /\ UNCHANGED <<envVars, histVars, op, path, track, now, ttl, data, tool, ret, sawScan, sawStale, began, fnVars>>

\* ------------------------------------------------------- side effects
\* The track api_add_repo stores for a path: the payload's when it is a known
\* track, else the one the entry already has, else none.
AddedTrack(p, tr) ==
    IF tr \in TRACK_OPTIONS THEN tr
    ELSE IF manifest[p] # Absent THEN manifest[p] ELSE ""

\* A dashboard whose scan started before thread t's side effect records that
\* it misses it.
Missing(v, t) ==
    IF IsDashboard(v) THEN [v EXCEPT !.missed = @ \cup {t}] ELSE v

\* The side effect is applied: the cached dashboard and the one a scan in
\* flight is building miss it.
Apply(t) ==
    /\ _cache_data' = Missing(_cache_data, t)
    /\ data' = [u \in Threads |-> Missing(data[u], t)]
    /\ Advance(t)

\* The request's arguments and the dashboard the handler looked its
\* repository up in have been used and are dead from here on.
Consumed(t) ==
    /\ ret' = [ret EXCEPT ![t] = None]
    /\ op' = [op EXCEPT ![t] = "none"]
    /\ path' = [path EXCEPT ![t] = ""]
    /\ track' = [track EXCEPT ![t] = ""]

\* The handler's request is refused (400, 404) before anything is changed.
Reject(t) ==
    /\ pc[t] = "effect"
    /\ pc' = [pc EXCEPT ![t] = "respond"]
    /\ todo' = [todo EXCEPT ![t] = <<>>]
    /\ Consumed(t)
    /\ UNCHANGED <<cacheVars, envVars, histVars, now, ttl, data, tool, sawScan, sawStale, began, fnVars>>

\* api_add_repo's manifest write.
EffectAdd(t) ==
    /\ pc[t] = "effect"
    /\ op[t] = "add"
    /\ manifest' = [manifest EXCEPT ![path[t]] = AddedTrack(path[t], track[t])]
    /\ Apply(t)
    /\ Consumed(t)
    /\ UNCHANGED <<_cache_lock, _cache_ts, clock, histVars, now, ttl, tool, sawScan, sawStale, began, fnVars>>

\* api_remove_repo: the manifest is written and the cache invalidated only
\* when an entry was removed; the forced load follows either way.
EffectRemove(t) ==
    /\ pc[t] = "effect"
    /\ op[t] = "remove"
    /\ IF manifest[path[t]] # Absent
       THEN /\ manifest' = [manifest EXCEPT ![path[t]] = Absent]
            /\ Apply(t)
       ELSE /\ todo' = [todo EXCEPT ![t] = Tail(Tail(todo[t]))]
            /\ pc' = [pc EXCEPT ![t] = EntryPc(Tail(Tail(todo[t])))]
            /\ UNCHANGED <<manifest, _cache_data, data>>
    /\ Consumed(t)
    /\ UNCHANGED <<_cache_lock, _cache_ts, clock, histVars, now, ttl, tool, sawScan, sawStale, began, fnVars>>

\* git pull, git add/commit/push, the GitHub issue POST, the TODO.md write.
EffectWrite(t) ==
    /\ pc[t] = "effect"
    /\ op[t] = "write"
    /\ Apply(t)
    /\ Consumed(t)
    /\ UNCHANGED <<_cache_lock, _cache_ts, envVars, histVars, now, ttl, tool, sawScan, sawStale, began, fnVars>>

\* The command failed and changed nothing; the handler goes on and reports it.
EffectFailed(t) ==
    /\ pc[t] = "effect"
    /\ op[t] = "write"
    /\ Head(todo[t]) = "effect"
    /\ Advance(t)
    /\ Consumed(t)
    /\ UNCHANGED <<cacheVars, envVars, histVars, now, ttl, data, tool, sawScan, sawStale, began, fnVars>>

\* The handler returns successfully: no exception left it.
Succeeded(t) == ret[t] \notin Errors

\* Thread t's handler has returned: a dashboard that misses its side effect
\* misses the side effect of a handler that returned successfully, or, when
\* the handler failed, is not held to it.
Settled(v, t) ==
    IF IsDashboard(v) /\ t \in v.missed
    THEN [v EXCEPT !.missed = (@ \ {t}) \cup (IF Succeeded(t) THEN {"returned"} ELSE {})]
    ELSE v

\* The handler answers and the thread is free for the next request.
Respond(t) ==
    /\ pc[t] = "respond"
    /\ _cache_data' = Settled(_cache_data, t)
    /\ data' = [u \in Threads |-> Settled(data[u], t)]
    /\ pc' = [pc EXCEPT ![t] = "idle"]
    /\ todo' = [todo EXCEPT ![t] = <<>>]
    /\ Consumed(t)
    /\ UNCHANGED <<_cache_lock, _cache_ts, envVars, calls, now, ttl, tool, sawScan, sawStale, began, fnVars>>

\* A request arrives and a free thread starts its handler. Free threads are
\* alike, so the first of them takes it.
Request(t) ==
    /\ pc[t] = "idle"
    /\ t = "w1" \/ pc["w1"] # "idle"
    /\ calls < MaxCalls
    /\ calls' = calls + 1
    /\ \E h \in Handlers :
         /\ op' = [op EXCEPT ![t] = Kind(h)]
         /\ todo' = [todo EXCEPT ![t] = Script(h)]
         /\ pc' = [pc EXCEPT ![t] = EntryPc(Script(h))]
         /\ IF h \in {"api_add_repo", "api_remove_repo"}
            THEN \E p \in Paths : path' = [path EXCEPT ![t] = p]
            ELSE path' = path
         /\ IF h = "api_add_repo"
            THEN \E tr \in TrackInputs : track' = [track EXCEPT ![t] = tr]
            ELSE track' = track
    /\ UNCHANGED <<cacheVars, envVars, now, ttl, data, tool, ret, sawScan, sawStale, began, fnVars>>

\* ---------------------------------------------------------- environment
\* A second passes.
Tick ==
    /\ clock < 1 + MaxTicks
    /\ clock' = clock + 1
    /\ UNCHANGED <<cacheVars, manifest, histVars, threadVars, fnVars>>

\* ---------------------------------------------------------------- Spec
NoInput == [kind |-> "none"]

Init ==
    /\ _cache_lock = Unlocked
    /\ _cache_data = None
    /\ _cache_ts = 0
    /\ clock = 1
    /\ manifest = [p \in Paths |-> Absent]
    /\ calls = 0
    /\ pc = [t \in Threads |-> "idle"]
    /\ op = [t \in Threads |-> "none"]
    /\ todo = [t \in Threads |-> <<>>]
    /\ path = [t \in Threads |-> ""]
    /\ track = [t \in Threads |-> ""]
    /\ now = [t \in Threads |-> 0]
    /\ ttl = [t \in Threads |-> 0]
    /\ data = [t \in Threads |-> None]
    /\ tool = [t \in Threads |-> 0]
    /\ ret = [t \in Threads |-> None]
    /\ sawScan = [t \in Threads |-> 0]
    /\ sawStale = [t \in Threads |-> 0]
    /\ began = [t \in Threads |-> 0]
    /\ call_args = NoInput
    /\ call_result = NoInput

Step(t) ==
    \/ Request(t)
    \/ LdBegin(t)
    \/ LdAcquire(t)
    \/ LdCheck(t)
    \/ ScanTool(t)
    \/ InvAcquire(t)
    \/ InvClear(t)
    \/ Reject(t)
    \/ EffectAdd(t)
    \/ EffectRemove(t)
    \/ EffectWrite(t)
    \/ EffectFailed(t)
    \/ Respond(t)

Next ==
    \/ \E t \in Threads : Step(t)
    \/ Tick

Spec == Init /\ [][Next]_vars

\* ------------------------------------------------------- calc_progress
\* The "date" string of a repository's last commit: empty (no commit), text
\* that is no ISO date, or an ISO date (here: its day number).
DateStrings ==
    {[kind |-> "empty", day |-> 0], [kind |-> "garbage", day |-> 0]}
        \cup [kind : {"iso"}, day : 0..(MaxDays + FutureDays)]

\* dt.datetime.now(dt.timezone.utc), as a day number.
Today == MaxDays

\* Ages past which the stage no longer depends on the age.
OldDays == {61, 91, 120}

\* collect_issue_matches(repo, max_count=120): the most issue hits counted.
IssueCap == 120

\* Issue totals of a repository: len(issue_hits).
IssueTotals == {Min(30 * k + r, IssueCap) : k \in 0..MaxIssueBlocks, r \in {0, 29}}

\* The part of repo_metrics calc_progress reads.
RepoMetrics ==
    [date : DateStrings \cup [kind : {"iso"}, day : {Today - d : d \in OldDays}],
     last_30d : 0..MaxCommits,
     modified : 0..MaxModified,
     untracked : 0..MaxUntracked,
     issues : IssueTotals]

\* A parser that takes any text for a date.
parse_any_date(date_str) ==
    [kind |-> "datetime", day |-> date_str.day]

\* parse_iso_date: None for the empty string and for a ValueError of
\* fromisoformat, else the datetime.
parse_iso_date(date_str) ==
    IF date_str.kind = "empty" THEN None
    ELSE IF date_str.kind = "iso" THEN [kind |-> "datetime", day |-> date_str.day]
    ELSE None

\* An activity score that starts again from 0 at its cap.
activity_wrapped(commits_30) == (commits_30 * 3) % 35

\* An activity score without its cap.
activity_uncapped(commits_30) == commits_30 * 3

recency_score(days_since) == Max(0, 30 - Min(days_since, 30))
activity_score(commits_30) == Min(commits_30 * 3, 35)
hygiene_penalty(dirty) == Min(dirty * 2, 20)
issue_penalty(issues) == Min(issues \div 30, 10)

\* The stage rules with the age rule tried before the commit rules.
stage_age_first(commits_30, days_since) ==
    IF commits_30 = 0 /\ days_since > 90 THEN "Stalled"
    ELSE IF days_since <= 60 THEN "Maintaining"
    ELSE "At Risk"

stage_of(commits_30, days_since) ==
    IF commits_30 = 0 /\ days_since > 90 THEN "Stalled"
    ELSE IF commits_30 >= 12 /\ days_since <= 7 THEN "Accelerating"
    ELSE IF commits_30 >= 4 /\ days_since <= 30 THEN "In Progress"
    ELSE IF days_since <= 60 THEN "Maintaining"
    ELSE "At Risk"

calc_progress(repo_metrics, today) ==
    LET last_date == parse_iso_date(repo_metrics.date) IN
    IF last_date = None
    THEN [kind |-> "result", score |-> 0, stage |-> "Not Started"]
    ELSE LET days_since == Max(today - last_date.day, 0)
             commits_30 == repo_metrics.last_30d
             dirty == repo_metrics.modified + repo_metrics.untracked
             issues == repo_metrics.issues
             score == 20 + recency_score(days_since) + activity_score(commits_30)
                         - hygiene_penalty(dirty) - issue_penalty(issues)
         IN [kind |-> "result",
             score |-> Max(0, Min(100, score)),
             stage |-> stage_of(commits_30, days_since)]

\* The scan scores one repository: progress, stage = calc_progress(metrics).
CalcProgress ==
    /\ call_result = NoInput
    /\ call_result' = calc_progress(call_args, Today)
    /\ UNCHANGED <<cacheVars, envVars, histVars, threadVars, call_args>>

InitProgress ==
    /\ _cache_lock = Unlocked
    /\ _cache_data = None
    /\ _cache_ts = 0
    /\ clock = 1
    /\ manifest = [p \in Paths |-> Absent]
    /\ calls = 0
    /\ pc = [t \in Threads |-> "idle"]
    /\ op = [t \in Threads |-> "none"]
    /\ todo = [t \in Threads |-> <<>>]
    /\ path = [t \in Threads |-> ""]
    /\ track = [t \in Threads |-> ""]
    /\ now = [t \in Threads |-> 0]
    /\ ttl = [t \in Threads |-> 0]
    /\ data = [t \in Threads |-> None]
    /\ tool = [t \in Threads |-> 0]
    /\ ret = [t \in Threads |-> None]
    /\ sawScan = [t \in Threads |-> 0]
    /\ sawStale = [t \in Threads |-> 0]
    /\ began = [t \in Threads |-> 0]
    /\ call_args \in RepoMetrics
    /\ call_result = NoInput

NextProgress == CalcProgress

SpecProgress == InitProgress /\ [][NextProgress]_vars

\* ----------------------------------------------------------------- text
\* A str is the sequence of its characters. Upper-case letters that occur in
\* the texts below, with their lower-case forms.
LowerOf == ("A" :> "a") @@ ("E" :> "e") @@ ("H" :> "h") @@ ("K" :> "k") @@ ("S" :> "s") @@ ("T" :> "t")

\* str.lower()
lower(s) == [i \in 1..Len(s) |-> IF s[i] \in DOMAIN LowerOf THEN LowerOf[s[i]] ELSE s[i]]

\* s.startswith(p)
startswith(s, p) == Len(p) <= Len(s) /\ SubSeq(s, 1, Len(p)) = p

\* k in s, for strings
contains(s, k) ==
    \E i \in 0..(Len(s) - Len(k)) : SubSeq(s, i + 1, i + Len(k)) = k

\* The server is idle: no request has been made and nothing is cached.
Idle ==
    /\ _cache_lock = Unlocked
    /\ _cache_data = None
    /\ _cache_ts = 0
    /\ clock = 1
    /\ manifest = [p \in Paths |-> Absent]
    /\ calls = 0
    /\ pc = [t \in Threads |-> "idle"]
    /\ op = [t \in Threads |-> "none"]
    /\ todo = [t \in Threads |-> <<>>]
    /\ path = [t \in Threads |-> ""]
    /\ track = [t \in Threads |-> ""]
    /\ now = [t \in Threads |-> 0]
    /\ ttl = [t \in Threads |-> 0]
    /\ data = [t \in Threads |-> None]
    /\ tool = [t \in Threads |-> 0]
    /\ ret = [t \in Threads |-> None]
    /\ sawScan = [t \in Threads |-> 0]
    /\ sawStale = [t \in Threads |-> 0]
    /\ began = [t \in Threads |-> 0]

\* ------------------------------------------------------ classify_track
finance_kw == {
    <<"f", "i", "n", "a", "n", "c", "e">>, <<"s", "t", "k">>,
    <<"t", "r", "a", "d", "e", "r">>, <<"p", "o", "l", "y">>,
    <<"t", "r", "a", "d", "i", "n", "g">>, <<"q", "u", "a", "n", "t">>,
    <<"m", "o", "o", "m", "o", "o">>, <<"w", "e", "b", "u", "l", "l">> }
engineering_kw == {
    <<"d", "a", "y", "t", "a", "l", "k">>, <<"n", "p", "u">>,
    <<"n", "o", "c">>, <<"m", "e", "c">>,
    <<"r", "t", "l">>, <<"a", "r", "m">>,
    <<"c", "h", "i", "p">>, <<"s", "o", "c">> }
soc_auto_kw == {
    <<"a", "u", "t", "o", "-", "d", "e", "s", "i", "g", "n">>, <<"a", "u", "t", "o", "d", "e", "s", "i", "g", "n">>,
    <<"o", "p", "e", "n", "l", "a", "n", "e">>, <<"e", "d", "a">>,
    <<"c", "h", "i", "p", "g", "e", "n">>, <<"a", "u", "t", "o", "f", "l", "o", "w">> }
family_kw == {
    <<"f", "a", "m", "i", "l", "y">>, <<"h", "o", "m", "e">>,
    <<"e", "l", "l", "a">>, <<"a", "n", "n", "a">> }

\* Repository paths and names classified, the prefixes a configuration's
\* track_overrides has as keys, and the tracks it has as values: the document
\* is free text, so a value need not be one of the four tracks.
RepoPaths == {
    <<"/", "a">>, <<"/", "a", "/", "b">>, <<"/", "a", "b">>,
    <<"/", "a", "/", "e", "d", "a">>, <<"/", "S", "T", "K">> }
RepoNames == {
    <<"x">>, <<"h", "o", "m", "e">>, <<"c", "h", "i", "p", "g", "e", "n">> }
OverridePrefixes == {
    <<"/", "a">>, <<"/", "a", "/", "b">>, <<"/", "a", "b">> }
OverrideTracks == {"finance", "family", "research"}

\* track_overrides: a dict, iterated in the order its keys were inserted, so a
\* sequence of <<prefix, track>> with every prefix at most once.
OverrideItems == OverridePrefixes \X OverrideTracks
TrackOverrides ==
    {ov \in UNION {[1..n -> OverrideItems] : n \in 0..MaxOverrides} :
        \A i, j \in 1..Len(ov) : i # j => ov[i][1] # ov[j][1]}

\* for prefix, track in cfg.track_overrides.items(): the place of the first
\* item whose prefix is the path or is followed by "/" in it; 0 if the loop
\* ends without a return.
override_of(repo_path, track_overrides) ==
    LET hits == {i \in 1..Len(track_overrides) :
                    \/ repo_path = track_overrides[i][1]
                    \/ startswith(repo_path, track_overrides[i][1] \o <<"/">>)}
    IN IF hits = {} THEN 0 ELSE CHOOSE i \in hits : \A j \in hits : i <= j

\* The keyword tests on f"{path} {repo_name}".lower(), in their order.
keyword_track(repo_path, repo_name) ==
    LET key == lower(repo_path \o <<" ">> \o repo_name) IN
    IF \E k \in finance_kw : contains(key, k) THEN "finance"
    ELSE IF \E k \in engineering_kw : contains(key, k) THEN "engineering"
    ELSE IF \E k \in soc_auto_kw : contains(key, k) THEN "soc_auto_design"
    ELSE IF \E k \in family_kw : contains(key, k) THEN "family"
    ELSE "engineering"

classify_track(repo_path, repo_name, track_overrides) ==
    LET o == override_of(repo_path, track_overrides) IN
    IF o # 0 THEN track_overrides[o][2] ELSE keyword_track(repo_path, repo_name)

\* track = classify_track(repo, name, cfg)
ClassifyTrack ==
    /\ call_result = NoInput
    /\ call_result' = [kind |-> "track",
                       track |-> classify_track(call_args.path, call_args.repo_name,
                                                call_args.track_overrides)]
    /\ UNCHANGED <<cacheVars, envVars, histVars, threadVars, call_args>>

InitClassify ==
    /\ Idle
    /\ call_args \in [path : RepoPaths, repo_name : RepoNames,
                      track_overrides : TrackOverrides]
    /\ call_result = NoInput

NextClassify == ClassifyTrack

SpecClassify == InitClassify /\ [][NextClassify]_vars

\* --------------------------------------------------- search_key_issues
\* A query with its white space kept.
unstripped(s) == s

\* str.strip()
strip(s) ==
    LET inked == {i \in 1..Len(s) : s[i] # " "} IN
    IF inked = {} THEN <<>>
    ELSE SubSeq(s, CHOOSE i \in inked : \A j \in inked : i <= j,
                   CHOOSE i \in inked : \A j \in inked : j <= i)

\* Entries of a dashboard's search_pool, and the pools made of them.
PoolItems ==
    {[repo |-> <<"x">>, title |-> <<"1">>,
     content |-> <<"T", "a">>, track |-> <<"f", "a", "m", "i", "l", "y">>],
     [repo |-> <<"x">>, title |-> <<"2">>,
     content |-> <<"b">>, track |-> <<"f", "a", "m", "i", "l", "y">>],
     [repo |-> <<"a", "t">>, title |-> <<"3">>,
     content |-> <<>>, track |-> <<"f", "a", "m", "i", "l", "y">>]}
SearchPools == UNION {[1..n -> PoolItems] : n \in 0..MaxPool}

\* Queries: empty, white space, and texts in either case with and without
\* white space around them.
Queries == {<<>>, <<" ", " ">>, <<"t", "a">>, <<" ", "T", "A">>, <<"a">>, <<"2">>}

\* f"{repo} {title} {content} {track}".lower()
hay(item) ==
    lower(item.repo \o <<" ">> \o item.title \o <<" ">> \o item.content
              \o <<" ">> \o item.track)

\* The loop over the pool from its i-th item on, with the results so far:
\* append a match, then break if len(results) >= limit.
RECURSIVE search_loop(_, _, _, _, _)
search_loop(pool, q, limit, i, results) ==
    IF i > Len(pool) THEN results
    ELSE LET found == IF contains(hay(pool[i]), q)
                      THEN Append(results, pool[i]) ELSE results
         IN IF Len(found) >= limit THEN found
            ELSE search_loop(pool, q, limit, i + 1, found)

\* search_key_issues, for a limit that is not negative
search_key_issues(pool, query, limit) ==
    LET q == lower(strip(query)) IN
    IF q = <<>> THEN SubSeq(pool, 1, Min(limit, Len(pool)))
    ELSE search_loop(pool, q, limit, 1, <<>>)

\* results = search_key_issues(data, q, limit)
SearchKeyIssues ==
    /\ call_result = NoInput
    /\ call_result' = [kind |-> "results",
                       results |-> search_key_issues(call_args.search_pool,
                                                     call_args.query, call_args.limit)]
    /\ UNCHANGED <<cacheVars, envVars, histVars, threadVars, call_args>>

InitSearch ==
    /\ Idle
    /\ call_args \in [search_pool : SearchPools, query : Queries, limit : 0..MaxLimit]
    /\ call_result = NoInput

NextSearch == SearchKeyIssues

SpecSearch == InitSearch /\ [][NextSearch]_vars

\* ---------------------------------------------- scan_repositories: rollup
\* weeks=12: the weeks of a histogram and of the trend.
Weeks == 12

\* Days are numbered, day 0 a Monday. The scan starts on FirstDay, a Sunday.
FirstDay == 7 * 20 + 6

\* strftime("%G-W%V"): the ISO week a day lies in. A label is written here as
\* the number of that week.
week_label(day) == day \div 7

\* The range of a list.
Range(f) == {f[i] : i \in DOMAIN f}

\* labels of weekly_commit_counts: the label of now, then of 7 days before,
\* and so on, weeks labels in all.
recent_labels(now_day, weeks) == [i \in 1..weeks |-> week_label(now_day - 7 * (i - 1))]

\* git log --since=<since_days>.days --date=format:%G-W%V --pretty=format:%ad
\* one line for each commit not older than since_days, with its week label.
git_log(commit_days, since_days, now_day) ==
    LET recent == SelectSeq(commit_days, LAMBDA d : d >= now_day - since_days)
    IN [i \in 1..Len(recent) |-> week_label(recent[i])]

\* The lines of the log counted by label, all of them kept.
weekly_unfiltered(out, now_day) ==
    [w \in Range(out) |-> Cardinality({i \in 1..Len(out) : out[i] = w})]

\* weekly_commit_counts: the lines of the log counted by label, and of these
\* counts the ones whose label is among the recent labels of now.
weekly_commit_counts(out, now_day) ==
    LET counts == [w \in Range(out) |-> Cardinality({i \in 1..Len(out) : out[i] = w})]
        label_set == Range(recent_labels(now_day, Weeks))
    IN [w \in Range(out) \cap label_set |-> counts[w]]

\* build_week_labels: the same labels, oldest first.
build_week_labels(now_day) ==
    [i \in 1..Weeks |-> recent_labels(now_day, Weeks)[Weeks + 1 - i]]

\* The sort key of a repository: (score, last_30d).
KeyLess(a, b) ==
    \/ a.score < b.score
    \/ a.score = b.score /\ a.last_30d < b.last_30d

\* A descending sort that puts a repository before the ones of equal key
\* already placed.
RECURSIVE sort_ties_reversed(_)
sort_ties_reversed(tracked) ==
    IF tracked = <<>> THEN <<>>
    ELSE LET rest == sort_ties_reversed(SubSeq(tracked, 1, Len(tracked) - 1))
             r == tracked[Len(tracked)]
             before == SelectSeq(rest, LAMBDA x : KeyLess(r, x))
             after == SelectSeq(rest, LAMBDA x : ~KeyLess(r, x))
         IN before \o <<r>> \o after

\* tracked.sort(key=lambda r: (score, last_30d), reverse=True): list.sort is
\* stable, with reverse=True as well; each repository goes behind the ones
\* already placed whose key is not less than its own.
RECURSIVE sort_tracked(_)
sort_tracked(tracked) ==
    IF tracked = <<>> THEN <<>>
    ELSE LET rest == sort_tracked(SubSeq(tracked, 1, Len(tracked) - 1))
             r == tracked[Len(tracked)]
             before == SelectSeq(rest, LAMBDA x : ~KeyLess(x, r))
             after == SelectSeq(rest, LAMBDA x : KeyLess(x, r))
         IN before \o <<r>> \o after

\* sum(...) over a list of numbers
RECURSIVE sum(_)
sum(xs) == IF xs = <<>> THEN 0 ELSE Head(xs) + sum(Tail(xs))

ZeroDivisionError == [kind |-> "ZeroDivisionError"]

\* round(total / count, 1), in tenths: the quotient is rounded to the nearest
\* tenth, and of two nearest ones (a quotient ending in .25 or .75, which a
\* float holds exactly) to the even one.
rounded_tenths(total, count) ==
    LET q == (10 * total) \div count
        r == (10 * total) % count
    IN IF 2 * r < count THEN q
       ELSE IF 2 * r > count THEN q + 1
       ELSE IF q % 2 = 0 THEN q ELSE q + 1

\* The average without the test for an empty track.
average_unguarded(total, repos_count) ==
    IF repos_count = 0 THEN ZeroDivisionError
    ELSE [kind |-> "float", tenths |-> rounded_tenths(total, repos_count)]

\* round(avg_progress / repos_count, 1) if repos_count else 0.0
average(total, repos_count) ==
    IF repos_count # 0
    THEN [kind |-> "float", tenths |-> rounded_tenths(total, repos_count)]
    ELSE [kind |-> "float", tenths |-> 0]

tracks == <<"finance", "engineering", "soc_auto_design", "family">>

\* The track of a repository, taken as it is.
rollup_known_only(repo) == repo.track

\* t = repo["track"] if repo["track"] in track_summary else "engineering"
rollup_track(repo) == IF repo.track \in Range(tracks) THEN repo.track ELSE "engineering"

\* The repositories of the list that are rolled up under track t.
of_track(tracked, t) == SelectSeq(tracked, LAMBDA r : rollup_track(r) = t)

\* track_summary[t], as far as repos and avg_progress go
track_summary(tracked, t) ==
    LET mine == of_track(tracked, t) IN
    [repos |-> Len(mine),
     active_repos |-> Len(SelectSeq(mine, LAMBDA r : r.last_30d > 0)),
     commits_30d |-> sum([i \in 1..Len(mine) |-> mine[i].last_30d]),
     commits_90d |-> sum([i \in 1..Len(mine) |-> mine[i].last_90d]),
     issues |-> sum([i \in 1..Len(mine) |-> mine[i].issues.total]),
     avg_progress |-> average(sum([i \in 1..Len(mine) |-> mine[i].score]), Len(mine))]

\* trend[t][w] after the loop over tracked: the counts of the histograms of
\* the track's repositories that carry the label w.
trend_cell(tracked, t, w) ==
    LET mine == of_track(tracked, t) IN
    sum([i \in 1..Len(mine) |->
            IF w \in DOMAIN mine[i].weekly_commits THEN mine[i].weekly_commits[w] ELSE 0])

\* dashboard["summary"], as far as it is summed from the repositories
global_summary(tracked) ==
    [total_repos |-> Len(tracked),
     active_repos_30d |-> Len(SelectSeq(tracked, LAMBDA r : r.last_30d > 0)),
     total_commits_30d |-> sum([i \in 1..Len(tracked) |-> tracked[i].last_30d]),
     total_commits_90d |-> sum([i \in 1..Len(tracked) |-> tracked[i].last_90d]),
     total_issue_hits |-> sum([i \in 1..Len(tracked) |-> tracked[i].issues.total])]

\* The dashboard scan_repositories builds from tracked and the search pool
\* on the day now_day: week labels, trend, track summary, sorted repos,
\* summary.
build_dashboard(tracked, issue_search_pool, now_day) ==
    LET week_labels == build_week_labels(now_day)
        summary == [t \in Range(tracks) |-> track_summary(tracked, t)]
    IN IF \E t \in Range(tracks) : summary[t].avg_progress = ZeroDivisionError
       THEN ZeroDivisionError
       ELSE [kind |-> "dashboard",
             summary |-> global_summary(sort_tracked(tracked)),
             search_pool |-> issue_search_pool,
             track_summary |-> summary,
             trend |-> [labels |-> week_labels,
                        series |-> [t \in Range(tracks) |->
                                      [i \in 1..Weeks |-> trend_cell(tracked, t, week_labels[i])]]],
             repos |-> sort_tracked(tracked)]

\* What the scan finds in one repository: the track it is classified as, the
\* days of its commits, its commits of the last 30 and 90 days, its origin,
\* its evidence.
RepoTracks == {"finance", "research"}

\* cfg.owner
ConfigOwner == <<"a", "t">>

\* RE_OWNER: github\.com[:/]([^/]+)/([^/.]+)(?:\.git)?$
RE_OWNER_host == <<"g", "i", "t", "h", "u", "b", ".", "c", "o", "m">>

\* ([^/.]+)(?:\.git)?$ on the rest of the url: the name, if the rest is one,
\* and the empty string if not.
RE_OWNER_name(rest) ==
    LET dotgit == <<".", "g", "i", "t">>
        name == IF Len(rest) >= 4 /\ SubSeq(rest, Len(rest) - 3, Len(rest)) = dotgit
                THEN SubSeq(rest, 1, Len(rest) - 4)
                ELSE rest
    IN IF name # <<>> /\ \A k \in 1..Len(name) : name[k] \notin {"/", "."}
       THEN name ELSE <<>>

\* RE_OWNER matched with the host starting at position p: the separator, the
\* owner up to the next "/", the name up to the end.
RE_OWNER_at(url, p) ==
    LET sep == p + Len(RE_OWNER_host)
        slashes == {j \in sep + 1..Len(url) : url[j] = "/"}
        slash == CHOOSE j \in slashes : \A k \in slashes : j <= k
    IN IF /\ sep <= Len(url)
          /\ SubSeq(url, p, sep - 1) = RE_OWNER_host
          /\ url[sep] \in {":", "/"}
          /\ slashes # {}
          /\ slash > sep + 1
          /\ RE_OWNER_name(SubSeq(url, slash + 1, Len(url))) # <<>>
       THEN [kind |-> "match",
             owner |-> SubSeq(url, sep + 1, slash - 1),
             name |-> RE_OWNER_name(SubSeq(url, slash + 1, Len(url)))]
       ELSE None

\* parse_remote_owner_repo: RE_OWNER.search(remote_url), the match that starts
\* leftmost, or None.
parse_remote_owner_repo(remote_url) ==
    LET starts == {q \in 1..Len(remote_url) : RE_OWNER_at(remote_url, q) # None}
    IN IF starts = {} THEN None
       ELSE RE_OWNER_at(remote_url, CHOOSE q \in starts : \A r \in starts : q <= r)

\* The head of the loop body: whether the repository is passed over.
skipped(remote) ==
    \/ remote.code # 0
    \/ remote.out = <<>>
    \/ parse_remote_owner_repo(remote.out) = None
    \/ lower(parse_remote_owner_repo(remote.out).owner) # lower(ConfigOwner)

\* run_cmd(["git", "-C", repo, "remote", "get-url", "origin"]): the exit
\* status and the url printed.
RemoteUrls == {<<"g", "i", "t", "h", "u", "b", ".", "c", "o", "m", "/", "A", "t", "/", "x">>, <<"g", "i", "t", "h", "u", "b", ".", "c", "o", "m", ":", "a", "t", "/", "x", ".", "g", "i", "t">>, <<"g", "i", "t", "h", "u", "b", ".", "c", "o", "m", "/", "e", "k", "/", "x">>,
               <<"g", "i", "t", "h", "u", "b", ".", "c", "o", "m", "/", "a", "t", "/", "x", ".", "i", "o">>, <<"x">>, <<>>}
RemoteOutcomes ==
    {[code |-> 0, out |-> u] : u \in RemoteUrls} \cup {[code |-> 128, out |-> <<>>]}
CommitLogs == {<<>>, <<FirstDay>>, <<FirstDay - 77, FirstDay - 77>>, <<FirstDay, FirstDay - 84>>}
CommitCounts == {0, 12, 15}

\* max_count=80 of collect_commit_alerts, issue_hits[:80], commit_alerts[:40]
AlertCap == 80
HitsKept == 80
AlertsKept == 40

\* The lines a search or a log prints: the n-th line that is of the expected
\* form (path:line:text, or date|hash|subject with a subject that matches)
\* is written n, and a line that is not is written 0.
Lines(n) == [i \in 1..n |-> i]

\* xs[:n]
sliced(xs, n) == SubSeq(xs, 1, Min(n, Len(xs)))

\* The entries of all the lines of the expected form.
collect_all_matches(issue_out, max_count) ==
    IF issue_out.code \notin {0, 1} \/ issue_out.out = <<>> THEN <<>>
    ELSE SelectSeq(issue_out.out, LAMBDA line : line # 0)

\* collect_issue_matches: nothing when the search exits with another status
\* than 0 or 1 or prints nothing, else the entries of the lines of the
\* expected form, up to the max_count-th.
collect_issue_matches(issue_out, max_count) ==
    IF issue_out.code \notin {0, 1} \/ issue_out.out = <<>> THEN <<>>
    ELSE sliced(SelectSeq(issue_out.out, LAMBDA line : line # 0), max_count)

\* collect_commit_alerts: the alerts of the log lines whose subject matches,
\* up to the max_count-th.
collect_commit_alerts(alert_out, max_count) ==
    sliced(SelectSeq(alert_out, LAMBDA line : line # 0), max_count)

\* The entries the loop body appends to the search pool for one repository.
pool_entries(repo_path, issue_hits, commit_alerts) ==
    [i \in 1..Len(sliced(issue_hits, HitsKept)) |->
        [path |-> repo_path, type |-> "code_issue", item |-> issue_hits[i]]]
    \o [i \in 1..Len(sliced(commit_alerts, AlertsKept)) |->
        [path |-> repo_path, type |-> "commit_alert", item |-> commit_alerts[i]]]

\* What the issue search and the alert log print for a repository.
Evidence ==
    {[issue_out |-> [code |-> 0, out |-> <<>>], alert_out |-> <<>>],
     [issue_out |-> [code |-> 0, out |-> Lines(HitsKept)], alert_out |-> Lines(AlertsKept)],
     [issue_out |-> [code |-> 0, out |-> Lines(HitsKept + 1)], alert_out |-> Lines(AlertsKept + 1)],
     [issue_out |-> [code |-> 0, out |-> Lines(IssueCap + 1)], alert_out |-> Lines(AlertCap + 1)],
     [issue_out |-> [code |-> 2, out |-> Lines(2)], alert_out |-> <<0, 1, 0>>],
     [issue_out |-> [code |-> 1, out |-> <<0, 1, 2>>], alert_out |-> <<>>]}

\* A repository of the configured owner without commits in the 12 weeks and
\* without evidence.
PlainRepo ==
    [track |-> "finance", commit_days |-> <<>>, last_30d |-> 12, last_90d |-> 24,
     remote |-> [code |-> 0, out |-> <<"g", "i", "t", "h", "u", "b", ".", "c", "o", "m", "/", "A", "t", "/", "x">>],
     issue_out |-> [code |-> 0, out |-> <<>>], alert_out |-> <<>>]

FoundRepos ==
    {[PlainRepo EXCEPT !.commit_days = c, !.last_30d = n, !.last_90d = 2 * n] :
        c \in CommitLogs, n \in CommitCounts}
    \cup {[PlainRepo EXCEPT !.track = t] : t \in RepoTracks}
    \cup {[PlainRepo EXCEPT !.remote = r] : r \in RemoteOutcomes}
    \cup {[PlainRepo EXCEPT !.issue_out = e.issue_out, !.alert_out = e.alert_out] : e \in Evidence}

\* The discovered repositories: a sorted list of paths (here: 1, 2, ..), with
\* what is found in each.
Discovered ==
    UNION {[1..n -> FoundRepos] : n \in 0..MaxRepos}

\* The loop body of scan_repositories for the next repository: it is passed
\* over, or else its weekly histogram as of now, its score, and
\* tracked.append(metrics). The entry keeps, for the record, the log the
\* histogram was counted from and the day it was counted on, and seen keeps
\* what was found in the repositories the loop has been through.
ScanRepo ==
    /\ call_result = NoInput
    /\ call_args.repos # <<>>
    /\ LET found == Head(call_args.repos)
           today == call_args.today
           issue_hits == collect_issue_matches(found.issue_out, IssueCap)
           commit_alerts == collect_commit_alerts(found.alert_out, AlertCap)
           metrics == [date |-> [kind |-> "iso", day |-> FirstDay - 2],
                       last_30d |-> found.last_30d,
                       modified |-> 0, untracked |-> 0, issues |-> Len(issue_hits)]
       IN call_args' =
            IF skipped(found.remote)
            THEN [call_args EXCEPT !.repos = Tail(@), !.seen = Append(@, found)]
            ELSE
            [call_args EXCEPT
                !.repos = Tail(@),
                !.seen = Append(@, found),
                !.issue_search_pool =
                    @ \o pool_entries(Len(call_args.seen) + 1, issue_hits, commit_alerts),
                !.tracked = Append(@,
                    [path |-> Len(call_args.seen) + 1,
                     remote |-> found.remote.out,
                     track |-> found.track,
                     last_30d |-> found.last_30d,
                     last_90d |-> found.last_90d,
                     issues |-> [total |-> Len(issue_hits), hits |-> sliced(issue_hits, HitsKept)],
                     commit_alerts |-> sliced(commit_alerts, AlertsKept),
                     weekly_commits |->
                         weekly_commit_counts(git_log(found.commit_days, Weeks * 7, today), today),
                     log_out |-> git_log(found.commit_days, Weeks * 7, today),
                     scanned_on |-> today,
                     score |-> calc_progress(metrics, today).score])]
    /\ UNCHANGED <<cacheVars, envVars, histVars, threadVars, call_result>>

\* Midnight passes while the scan runs.
ScanDayPasses ==
    /\ call_result = NoInput
    /\ call_args.today < FirstDay + MaxScanDays
    /\ call_args' = [call_args EXCEPT !.today = @ + 1]
    /\ UNCHANGED <<cacheVars, envVars, histVars, threadVars, call_result>>

\* After the loop: labels, trend, summary, sort, return dashboard.
ScanFinish ==
    /\ call_result = NoInput
    /\ call_args.repos = <<>>
    /\ call_result' = build_dashboard(call_args.tracked, call_args.issue_search_pool,
                                       call_args.today)
    /\ UNCHANGED <<cacheVars, envVars, histVars, threadVars, call_args>>

InitScan ==
    /\ Idle
    /\ \E repos \in Discovered :
         call_args = [kind |-> "scan", today |-> FirstDay, repos |-> repos,
                      seen |-> <<>>, tracked |-> <<>>, issue_search_pool |-> <<>>]
    /\ call_result = NoInput

NextScan == ScanRepo \/ ScanDayPasses \/ ScanFinish

SpecScan == InitScan /\ [][NextScan]_vars

\* ------------------------------------------------------ discover_git_repos
\* The code points of the characters of the paths below.
ord == "." :> 46 @@ "/" :> 47 @@ "a" :> 97 @@ "b" :> 98 @@ "g" :> 103 @@ "i" :> 105 @@ "t" :> 116

\* a < b on str: at the first position they differ in a has the smaller
\* character, or a is a proper prefix of b.
str_less(a, b) ==
    \/ Len(a) < Len(b) /\ SubSeq(b, 1, Len(a)) = a
    \/ \E i \in 1..Len(a) :
         /\ i <= Len(b)
         /\ SubSeq(a, 1, i - 1) = SubSeq(b, 1, i - 1)
         /\ ord[a[i]] < ord[b[i]]

\* sorted(repos) of a set of str
RECURSIVE sorted(_)
sorted(repos) ==
    IF repos = {} THEN <<>>
    ELSE LET first == CHOOSE x \in repos : \A y \in repos : ~str_less(y, x)
         IN <<first>> \o sorted(repos \ {first})

\* str(Path(line).parent): the line up to its last "/".
parent(line) ==
    LET slashes == {i \in 1..Len(line) : line[i] = "/"}
        last == CHOOSE i \in slashes : \A j \in slashes : j <= i
    IN IF slashes = {} THEN <<".">>
       ELSE IF last = 1 THEN <<"/">>
       ELSE SubSeq(line, 1, last - 1)

\* The tail of discover_git_repos: the sorted candidates that start with none
\* of the exclude_paths.
filtered(repos, exclude_paths) ==
    SelectSeq(sorted(repos),
              LAMBDA repo : ~\E i \in 1..Len(exclude_paths) : startswith(repo, exclude_paths[i]))

\* The configurations discovery is run with.
IncludePaths == {<<"/", "a">>, <<"/", "a", "/", "b">>, <<"/", "b">>}
IncludeRepos == UNION {[1..n -> IncludePaths] : n \in 0..MaxInclude}
ScanRoots == {roots \in UNION {[1..n -> {<<"/", "a">>, <<"/", "b">>}] : n \in 0..MaxRoots} :
                 \A i, j \in 1..Len(roots) : i < j => roots[i] # roots[j]}
ExcludePaths == {<<>>, <<<<"/", "a">>>>, <<<<"/", "a", "/", "b">>>>, <<<<"/", "b">>, <<"/", "a", "/", "b">>>>}

\* What find prints for a root: the .git directories under it it could reach.
FindOutput(root) ==
    IF root = <<"/", "a">> THEN {<<>>, <<<<"/", "a", "/", ".", "g", "i", "t">>>>, <<<<"/", "a", "/", ".", "g", "i", "t">>, <<"/", "a", "/", "b", "/", ".", "g", "i", "t">>>>, <<<<"/", "a", "/", "b", "/", ".", "g", "i", "t">>>>}
    ELSE {<<>>, <<<<"/", "b", "/", ".", "g", "i", "t">>>>}

\* run_cmd(["find", root, ...]): find's exit status and its output. find exits
\* with 0 after a complete search and with 1 when the root or a directory
\* below it could not be read, having printed what it found elsewhere; run_cmd
\* returns (127, "") when there is no find, and an OSError of another kind
\* leaves run_cmd as an exception. (A find that never exits leaves the call
\* at this root for good.)
FindOutcomes(root) ==
    {[code |-> c, out |-> o] : c \in {0, 1}, o \in FindOutput(root)}
        \cup {[code |-> 127, out |-> <<>>], ToolError}

\* The first loop of discover_git_repos: the include_repos that have a .git
\* directory become candidates.
DiscoverInclude ==
    /\ call_args # NoInput
    /\ call_args.kind = "discover"
    /\ call_args.at = "include"
    /\ call_result = NoInput
    /\ \E is_dir \in SUBSET Range(call_args.include_repos) :
         call_args' = [call_args EXCEPT !.at = "roots", !.repos = is_dir, !.git_dirs = is_dir]
    /\ UNCHANGED <<cacheVars, envVars, histVars, threadVars, call_result>>

\* The second loop of discover_git_repos for the next scan root: the parents
\* of the lines find prints become candidates, whatever its exit status; no
\* output, no candidates. The outcome of the search is kept on record.
DiscoverRoot ==
    /\ call_args # NoInput
    /\ call_args.kind = "discover"
    /\ call_args.at = "roots"
    /\ call_result = NoInput
    /\ call_args.scan_roots # <<>>
    /\ \E found \in FindOutcomes(Head(call_args.scan_roots)) :
         IF found = ToolError
         THEN /\ call_result' = ToolError
              /\ UNCHANGED call_args
         ELSE /\ call_args' =
                   [call_args EXCEPT
                       !.scan_roots = Tail(@),
                       !.searched = Append(@, found),
                       !.repos = @ \cup {parent(found.out[i]) : i \in 1..Len(found.out)}]
              /\ UNCHANGED call_result
    /\ UNCHANGED <<cacheVars, envVars, histVars, threadVars>>

\* The end of discover_git_repos: return filtered.
DiscoverReturn ==
    /\ call_args # NoInput
    /\ call_args.kind = "discover"
    /\ call_args.at = "roots"
    /\ call_result = NoInput
    /\ call_args.scan_roots = <<>>
    /\ call_result' = [kind |-> "list",
                       repos |-> filtered(call_args.repos, call_args.exclude_paths)]
    /\ UNCHANGED <<cacheVars, envVars, histVars, threadVars, call_args>>

InitDiscover ==
    /\ Idle
    /\ \E include_repos \in IncludeRepos, scan_roots \in ScanRoots, exclude_paths \in ExcludePaths :
         call_args = [kind |-> "discover", at |-> "include",
                      include_repos |-> include_repos,
                      scan_roots |-> scan_roots,
                      exclude_paths |-> exclude_paths,
                      repos |-> {}, git_dirs |-> {}, searched |-> <<>>]
    /\ call_result = NoInput

NextDiscover == DiscoverInclude \/ DiscoverRoot \/ DiscoverReturn

SpecDiscover == InitDiscover /\ [][NextDiscover]_vars

\* ============================================================== claims
\* Positions at which a thread reads or writes _cache_data and _cache_ts.
CachePcs == {"ld_check", "sc_tool", "sc_hung", "inv_clear"}

\* The cache slot as the program sees it: which object is cached, and the
\* timestamp stored with it.
CachedId == IF IsDashboard(_cache_data) THEN _cache_data.id ELSE 0
Slot == <<CachedId, _cache_ts>>

\* C1: a non-forced load_dashboard that finds a snapshot cached and its own
\* clock reading minus the cache timestamp below the ttl it read returns that
\* very object, starts no scan and leaves the cache as it is; so two such
\* calls return the one snapshot of one scan.
C1_CacheHit ==
    [][\A t \in Threads :
         (/\ pc[t] = "ld_check"
          /\ pc'[t] # "ld_check"
          /\ Head(todo[t]) = "loadN"
          /\ _cache_data # None
          /\ now[t] - _cache_ts < ttl[t])
         => /\ ret'[t] = _cache_data
            /\ pc'[t] \notin ScanPcs
            /\ data'[t] = None
            /\ _cache_data' = _cache_data
            /\ _cache_ts' = _cache_ts]_vars

\* Two handlers hold the same dashboard object: one scan served both calls.
C1_Witness ==
    \E t, u \in Threads :
        /\ t # u
        /\ pc[t] = "respond" /\ pc[u] = "respond"
        /\ IsDashboard(ret[t]) /\ IsDashboard(ret[u])
        /\ ret[t].id = ret[u].id
        /\ CachedId = ret[t].id

\* C2: at most one scan_repositories is in flight at any time, a thread at a
\* position that reads or writes the cache slot holds the lock, and the slot
\* changes only in a step of the thread holding the lock.
C2_OneScanUnderLock ==
    [][/\ Cardinality({t \in Threads : pc'[t] \in ScanPcs}) <= 1
       /\ \A t \in Threads : pc'[t] \in CachePcs => _cache_lock' = t
       /\ Slot' # Slot =>
            \E t \in Threads : _cache_lock = t /\ pc[t] \in CachePcs /\ pc'[t] # pc[t]]_vars

\* One thread scans under the lock while the other waits for the lock.
C2_Witness ==
    \E t, u \in Threads :
        /\ pc[t] = "sc_tool" /\ _cache_lock = t
        /\ pc[u] \in {"ld_lock", "inv_lock"}

C4_NoStaleReadAfterWrite ==
    [][\A t \in Threads :
         (/\ pc[t] = "ld_check"
          /\ pc'[t] # "ld_check"
          /\ sawStale[t] # 0)
         => ~(IsDashboard(ret'[t]) /\ ret'[t].id = sawStale[t])]_vars

\* C5: a load_dashboard call that ends with the configuration error changes
\* neither _cache_data nor _cache_ts in any of its steps, and does not hold
\* the lock once it has ended.
C5_ConfigErrorLeavesCache ==
    [][\A t \in Threads :
         /\ (pc[t] \in {"ld_begin", "ld_lock"} /\ pc'[t] # pc[t]) =>
               (_cache_data' = _cache_data /\ _cache_ts' = _cache_ts)
         /\ (pc[t] \in {"ld_begin", "ld_check"} /\ ret'[t] = ConfigError) =>
               /\ _cache_data' = _cache_data
               /\ _cache_ts' = _cache_ts
               /\ pc'[t] = "respond"
               /\ _cache_lock' # t
         /\ pc'[t] \in {"idle", "respond"} => _cache_lock' # t]_vars

\* A call has ended with the configuration error while a snapshot is cached:
\* the snapshot is still there and the lock is free.
C5_Witness ==
    \E t \in Threads :
        /\ pc[t] = "respond"
        /\ ret[t] = ConfigError
        /\ IsDashboard(_cache_data)
        /\ _cache_lock = Unlocked

\* C6: every call in progress can take a step, or waits for the lock while
\* the thread holding the lock can take a step: no call is stuck for ever.
C6_EveryCallCanReturn ==
    \A t \in Threads :
        pc[t] # "idle" =>
            \/ ENABLED Step(t)
            \/ /\ pc[t] \in {"ld_lock", "inv_lock"}
               /\ \E u \in Threads : _cache_lock = u /\ ENABLED Step(u)

\* C7: no load_dashboard call ends with an exception raised by an external
\* tool call of its scan.
C7_ToolFailureAbsorbed ==
    \A t \in Threads : ret[t] # ToolError

\* C8: the configuration a scan starts with includes every path that has an
\* entry in the manifest.
C8_ManifestMerged ==
    [][\A t \in Threads :
         (pc[t] = "ld_check" /\ pc'[t] = "sc_tool") =>
             \A p \in Paths : manifest[p] # Absent => p \in data'[t].include]_vars

\* The age in days calc_progress is to use for the repository scored.
DaysSince ==
    IF Today - call_args.date.day < 0 THEN 0 ELSE Today - call_args.date.day

\* The score of the formula, before it is clamped.
RawScore ==
    20 + Max(0, 30 - Min(DaysSince, 30))
       + Min(3 * call_args.last_30d, 35)
       - Min(2 * (call_args.modified + call_args.untracked), 20)
       - Min(call_args.issues \div 30, 10)

\* C9: for a parseable last-commit date the score is 20 + max(0, 30 -
\* min(days_since, 30)) + min(3 * commits_30d, 35) - min(2 * dirty, 20) -
\* min(issues div 30, 10) clamped to 0..100, with days_since floored at 0; it
\* is an integer in 0..100, and 83 for 2 days, 15 commits, nothing dirty and
\* no issue.
C9_ScoreFormula ==
    (call_result # NoInput /\ call_args.date.kind = "iso") =>
        /\ call_result.score =
              (IF RawScore < 0 THEN 0 ELSE IF RawScore > 100 THEN 100 ELSE RawScore)
        /\ call_result.score \in 0..100
        /\ (/\ DaysSince = 2 /\ call_args.last_30d = 15
            /\ call_args.modified + call_args.untracked = 0
            /\ call_args.issues = 0) => call_result.score = 83

\* The repository of the example has been scored.
C9_Witness ==
    /\ call_result # NoInput
    /\ call_args.date.kind = "iso"
    /\ DaysSince = 2 /\ call_args.last_30d = 15
    /\ call_args.modified + call_args.untracked = 0
    /\ call_args.issues = 0
    /\ call_result.score = 83

\* C10: for an empty or unparseable last-commit date the result is score 0
\* and stage "Not Started", whatever the counts are.
C10_NoDateNotStarted ==
    (call_result # NoInput /\ call_args.date.kind \in {"empty", "garbage"}) =>
        /\ call_result.score = 0
        /\ call_result.stage = "Not Started"

\* A repository with commits, no dirty file and an unparseable date has been
\* scored.
C10_Witness ==
    /\ call_result # NoInput
    /\ call_args.date.kind = "garbage"
    /\ call_args.last_30d = MaxCommits
    /\ call_args.modified + call_args.untracked = 0
    /\ call_result.score = 0
    /\ call_result.stage = "Not Started"

\* The score calc_progress gives the repository scored with one count changed.
ScoreWith(m) == calc_progress(m, Today).score
Dirty(m) == m.modified + m.untracked

\* C11: with a parseable date and the other inputs fixed, the score does not
\* decrease when commits_30d grows, and does not increase when the number of
\* dirty files or the issue total grows.
C11_ScoreMonotone ==
    (call_result # NoInput /\ call_args.date.kind = "iso") =>
        /\ \A c \in 0..MaxCommits :
              c >= call_args.last_30d =>
                  ScoreWith([call_args EXCEPT !.last_30d = c]) >= call_result.score
        /\ \A md \in 0..MaxModified, u \in 0..MaxUntracked :
              md + u >= Dirty(call_args) =>
                  ScoreWith([call_args EXCEPT !.modified = md, !.untracked = u])
                      <= call_result.score
        /\ \A i \in IssueTotals :
              i >= call_args.issues =>
                  ScoreWith([call_args EXCEPT !.issues = i]) <= call_result.score

\* A repository has been scored for which more commits give a strictly higher
\* score, and more dirty files or more issues a strictly lower one.
C11_Witness ==
    /\ call_result # NoInput
    /\ call_args.date.kind = "iso"
    /\ \E c \in 0..MaxCommits :
         /\ c > call_args.last_30d
         /\ ScoreWith([call_args EXCEPT !.last_30d = c]) > call_result.score
    /\ \E md \in 0..MaxModified :
         /\ md > call_args.modified
         /\ ScoreWith([call_args EXCEPT !.modified = md]) < call_result.score
    /\ \E i \in IssueTotals :
         /\ i > call_args.issues
         /\ ScoreWith([call_args EXCEPT !.issues = i]) < call_result.score

\* C12: with a parseable date the stage is that of the first rule that
\* matches, in the order Stalled (no commit, more than 90 days), Accelerating
\* (12 commits or more, 7 days or less), In Progress (4 commits or more, 30
\* days or less), Maintaining (60 days or less), At Risk; dirty files, issues
\* and the score play no part, and 120 days without a commit is Stalled.
C12_StageRules ==
    (call_result # NoInput /\ call_args.date.kind = "iso") =>
        LET c == call_args.last_30d
            d == DaysSince
            rules == << <<c = 0 /\ d > 90, "Stalled">>,
                        <<c >= 12 /\ d <= 7, "Accelerating">>,
                        <<c >= 4 /\ d <= 30, "In Progress">>,
                        <<d <= 60, "Maintaining">>,
                        <<TRUE, "At Risk">> >>
            first == CHOOSE i \in 1..5 :
                        rules[i][1] /\ \A j \in 1..(i - 1) : ~rules[j][1]
        IN /\ call_result.stage = rules[first][2]
           /\ (c = 0 /\ d = 120) => call_result.stage = "Stalled"

\* A repository 120 days old without a commit, with dirty files and issues,
\* has been given its stage.
C12_Witness ==
    /\ call_result # NoInput
    /\ call_args.date.kind = "iso"
    /\ DaysSince = 120
    /\ call_args.last_30d = 0
    /\ Dirty(call_args) > 0
    /\ call_args.issues > 0
    /\ call_result.stage = "Stalled"

\* C13: classify_track returns one of finance, engineering, soc_auto_design,
\* family for every path, name and configuration, whatever its
\* track_overrides are.
C13_TrackIsOneOfFour ==
    (call_result # NoInput /\ call_result.kind = "track") =>
        call_result.track \in {"finance", "engineering", "soc_auto_design", "family"}

\* Whether the override prefix p applies to the path q: q is p, or q goes on
\* after p with a "/".
Applies(p, q) ==
    /\ Len(p) <= Len(q)
    /\ \A i \in 1..Len(p) : q[i] = p[i]
    /\ Len(q) > Len(p) => q[Len(p) + 1] = "/"

\* C14: an override prefix applies to a path only at a path boundary; when an
\* override applies the track returned is an override's, whatever keywords
\* match, and it is the track of the longest prefix that applies.
C14_LongestOverrideWins ==
    (call_result # NoInput /\ call_result.kind = "track") =>
        LET ov == call_args.track_overrides
            hits == {i \in 1..Len(ov) : Applies(ov[i][1], call_args.path)}
        IN hits # {} =>
             \E i \in hits :
                 /\ \A j \in hits : Len(ov[j][1]) <= Len(ov[i][1])
                 /\ call_result.track = ov[i][2]

\* Whether the query is empty or white space only.
BlankQuery == \A i \in 1..Len(call_args.query) : call_args.query[i] = " "

\* The query as the search compares it: without the white space around it, in
\* lower case.
Needle == lower(strip(call_args.query))

\* Whether a pool entry's "repo title content track" text, in lower case,
\* contains the query.
Matches(item) ==
    LET text == lower(item.repo \o <<" ">> \o item.title \o <<" ">> \o item.content
                          \o <<" ">> \o item.track)
    IN \E i \in 1..(Len(text) - Len(Needle) + 1) :
           \A j \in 1..Len(Needle) : text[i + j - 1] = Needle[j]

\* The first n entries of the pool that match the query, in pool order.
RECURSIVE FirstMatches(_, _)
FirstMatches(pool, n) ==
    IF pool = <<>> \/ n = 0 THEN <<>>
    ELSE IF Matches(Head(pool))
         THEN <<Head(pool)>> \o FirstMatches(Tail(pool), n - 1)
         ELSE FirstMatches(Tail(pool), n)

\* C15: for a query that is not empty and a limit >= 0 the result has at most
\* limit entries, each of them contains the query, and they are the first
\* matching entries of the pool in pool order; limit 0 gives no entry.
C15_SearchAtMostLimit ==
    (call_result # NoInput /\ call_result.kind = "results" /\ ~BlankQuery) =>
        /\ Len(call_result.results) <= call_args.limit
        /\ \A i \in 1..Len(call_result.results) : Matches(call_result.results[i])
        /\ call_result.results = FirstMatches(call_args.search_pool, call_args.limit)
        /\ call_args.limit = 0 => call_result.results = <<>>

\* C16: for an empty or white-space query and a limit N >= 0 the result is the
\* first min(N, pool size) entries of the pool in pool order.
C16_EmptyQueryPrefix ==
    (call_result # NoInput /\ call_result.kind = "results" /\ BlankQuery) =>
        LET n == IF call_args.limit <= Len(call_args.search_pool)
                 THEN call_args.limit ELSE Len(call_args.search_pool)
        IN /\ Len(call_result.results) = n
           /\ \A i \in 1..n : call_result.results[i] = call_args.search_pool[i]

\* A white-space query has been answered from a pool longer than the limit
\* whose first entry would not match the query as text.
C16_Witness ==
    /\ call_result # NoInput
    /\ call_result.kind = "results"
    /\ call_args.query = <<" ", " ">>
    /\ call_args.limit = 1
    /\ Len(call_args.search_pool) > 1
    /\ ~contains(hay(call_args.search_pool[1]), call_args.query)
    /\ call_result.results = <<call_args.search_pool[1]>>

\* Whether the scan has returned a dashboard.
ScanDone == call_result # NoInput /\ call_result.kind = "dashboard"

\* Whether a sorts before b or ties with it: by score, then by the 30-day
\* commit count, larger first.
NotAfter(a, b) ==
    \/ a.score > b.score
    \/ a.score = b.score /\ a.last_30d >= b.last_30d

\* C17: the dashboard's repos are the collected repositories, each once,
\* ordered by score descending, then by 30-day commits descending, and those
\* equal on both in the order they were collected in.
C17_ReposSortedStable ==
    ScanDone =>
        LET out == call_result.repos
            tracked == call_args.tracked
        IN /\ Len(out) = Len(tracked)
           /\ \A i \in 1..Len(tracked) : \E j \in 1..Len(out) : out[j] = tracked[i]
           /\ \A i, j \in 1..Len(out) :
                i < j => /\ NotAfter(out[i], out[j])
                         /\ NotAfter(out[j], out[i]) => out[i].path < out[j].path

\* Two repositories of equal score were collected, the one with fewer commits
\* first: the dashboard has them the other way round.
C17_Witness ==
    /\ ScanDone
    /\ Len(call_args.tracked) = 2
    /\ call_args.tracked[1].score = call_args.tracked[2].score
    /\ call_args.tracked[1].last_30d < call_args.tracked[2].last_30d
    /\ call_result.repos = <<call_args.tracked[2], call_args.tracked[1]>>

\* The 12 week labels of a day: of the day itself and of the days 7, 14, ..,
\* 77 days before it.
LabelsOf(day) == {(day - 7 * k) \div 7 : k \in 0..11}

\* The lines of a log that carry the label w.
LinesWith(log, w) == Cardinality({i \in 1..Len(log) : log[i] = w})

\* C18: every key of a repository's weekly_commits is one of the 12 week
\* labels of the day it was counted on, labels of the log outside these are
\* dropped, and a kept count is the number of log lines with that label.
C18_WeeklyKeysRecent ==
    (call_args # NoInput /\ call_args.kind = "scan") =>
        \A n \in 1..Len(call_args.tracked) :
            LET r == call_args.tracked[n] IN
            /\ DOMAIN r.weekly_commits = Range(r.log_out) \cap LabelsOf(r.scanned_on)
            /\ \A w \in DOMAIN r.weekly_commits :
                 r.weekly_commits[w] = LinesWith(r.log_out, w)

\* A repository has been counted whose log has a line of a week among the 12
\* and a line of an older week.
C18_Witness ==
    /\ call_args # NoInput
    /\ call_args.kind = "scan"
    /\ \E n \in 1..Len(call_args.tracked) :
         LET r == call_args.tracked[n] IN
         /\ \E i \in 1..Len(r.log_out) : r.log_out[i] \notin LabelsOf(r.scanned_on)
         /\ \E i \in 1..Len(r.log_out) : r.log_out[i] \in DOMAIN r.weekly_commits

\* C19: the scan returns a dashboard, not a division error, for every list of
\* collected repositories, and a track without repositories has the
\* avg_progress 0.0.
C19_AverageOfEmptyTrack ==
    (call_result # NoInput /\ call_args.kind = "scan") =>
        /\ call_result.kind = "dashboard"
        /\ \A t \in {"finance", "engineering", "soc_auto_design", "family"} :
             call_result.track_summary[t].repos = 0 =>
                 call_result.track_summary[t].avg_progress = [kind |-> "float", tenths |-> 0]

\* A dashboard has been built from repositories of which none is in the
\* family track and one is in the finance track.
C19_Witness ==
    /\ ScanDone
    /\ call_result.track_summary["family"].repos = 0
    /\ call_result.track_summary["finance"].repos = 1
    /\ call_result.track_summary["finance"].avg_progress.tenths > 0

\* The count a repository has for the label w in its weekly_commits.
CountOf(r, w) == IF w \in DOMAIN r.weekly_commits THEN r.weekly_commits[w] ELSE 0

\* The sum of the counts for the label w over the repositories from the n-th
\* on that are rolled up under track t.
RECURSIVE TrackWeekSum(_, _, _, _)
TrackWeekSum(tracked, n, t, w) ==
    IF n > Len(tracked) THEN 0
    ELSE (IF rollup_track(tracked[n]) = t THEN CountOf(tracked[n], w) ELSE 0)
             + TrackWeekSum(tracked, n + 1, t, w)

\* C20: the trend's labels are the 12 labels every repository's histogram was
\* filtered with, every trend cell is the sum of that week's counts over the
\* track's repositories, and every label a histogram has a count for is a
\* label of the trend.
C20_TrendLabelsMatch ==
    ScanDone =>
        LET labels == call_result.trend.labels
            tracked == call_args.tracked
        IN /\ \A n \in 1..Len(tracked) :
                /\ LabelsOf(tracked[n].scanned_on) = Range(labels)
                /\ DOMAIN tracked[n].weekly_commits \subseteq Range(labels)
           /\ \A t \in DOMAIN call_result.trend.series :
                \A i \in 1..Len(labels) :
                    call_result.trend.series[t][i] = TrackWeekSum(tracked, 1, t, labels[i])

\* Whether discovery is under way or has ended.
Discovering == call_args # NoInput /\ call_args.kind = "discover"

\* The parents of the .git directories reported by the searches that did
\* not fail.
Reported ==
    UNION {{parent(call_args.searched[n].out[i]) : i \in 1..Len(call_args.searched[n].out)} :
              n \in {m \in 1..Len(call_args.searched) : call_args.searched[m].code = 0}}

\* Whether a path starts with one of the exclusion prefixes.
Excluded(repo) ==
    \E i \in 1..Len(call_args.exclude_paths) :
        LET ex == call_args.exclude_paths[i]
        IN Len(ex) <= Len(repo) /\ \A k \in 1..Len(ex) : repo[k] = ex[k]

\* C21: discover_git_repos returns a list, strictly ascending, of paths none
\* of which starts with an exclusion prefix, and in it are, of the paths not
\* excluded, exactly the include-list entries that have a .git directory and
\* the parents of the .git directories reported for the scan roots whose
\* search did not fail: a search that fails or reports nothing adds no path
\* and keeps none of the others from being returned.
C21_DiscoveredSortedFiltered ==
    (Discovering /\ call_result # NoInput) =>
        /\ call_result.kind = "list"
        /\ LET out == call_result.repos IN
           /\ \A i \in 1..Len(out) - 1 : str_less(out[i], out[i + 1])
           /\ \A i \in 1..Len(out) : ~Excluded(out[i])
           /\ Range(out) = {repo \in call_args.git_dirs \cup Reported : ~Excluded(repo)}

\* The positions of a url at which a ":" or a "/" stands.
Separators(url) == {i \in 1..Len(url) : url[i] \in {":", "/"}}

\* Whether a url is host[:/]owner/name or host[:/]owner/name.git, with none
\* of the three empty: i is the separator behind the host and j the "/"
\* behind the owner.
OwnerAndName(url, i, j) ==
    /\ i \in Separators(url) /\ i > 1
    /\ j \in i + 2..Len(url) - 1
    /\ url[j] = "/"
    /\ \A k \in i + 1..Len(url) : k # j => url[k] \notin {":", "/"}
    /\ SubSeq(url, j + 1, Len(url)) # <<".", "g", "i", "t">>

\* Whether the owner a url names is the configured owner, whatever the case
\* of the letters.
OwnedByConfigured(url) ==
    \E i, j \in 1..Len(url) :
        /\ OwnerAndName(url, i, j)
        /\ lower(SubSeq(url, i + 1, j - 1)) = lower(ConfigOwner)

\* C22: a scan that has been through all repositories returns a dashboard;
\* a repository is in it if and only if its origin lookup exits with 0 and
\* prints a url that names an owner and a name, the owner being the
\* configured one up to case; the repositories in it have the track, the
\* commit count and the url found in them, and were collected in the order
\* they were discovered in, whatever was passed over in between.
C22_IncludedIffOwned ==
    (call_args # NoInput /\ call_args.kind = "scan" /\ call_result # NoInput) =>
        /\ call_result.kind = "dashboard"
        /\ \A n \in 1..Len(call_args.seen) :
             (\E k \in 1..Len(call_result.repos) : call_result.repos[k].path = n)
                <=> /\ call_args.seen[n].remote.code = 0
                    /\ call_args.seen[n].remote.out # <<>>
                    /\ OwnedByConfigured(call_args.seen[n].remote.out)
        /\ \A k \in 1..Len(call_args.tracked) :
             LET r == call_args.tracked[k] IN
             /\ r.path \in 1..Len(call_args.seen)
             /\ r.track = call_args.seen[r.path].track
             /\ r.last_30d = call_args.seen[r.path].last_30d
             /\ r.remote = call_args.seen[r.path].remote.out
             /\ k > 1 => call_args.tracked[k - 1].path < r.path

\* The entries of the dashboard's search pool that are of the repository r.
PoolOf(r) == SelectSeq(call_result.search_pool, LAMBDA e : e.path = r.path)

\* C23: in a dashboard every repository has at most 80 issue entries and at
\* most 40 commit alerts, an issue total of at most 120 and of no less than
\* the issue entries it has, and the search pool holds of it its issue
\* entries as code_issue and behind them its commit alerts as commit_alert,
\* nothing else, which are at most 120 entries; the pool has no entry of
\* another repository.
C23_EvidenceCaps ==
    ScanDone =>
        /\ \A k \in 1..Len(call_result.repos) :
             LET r == call_result.repos[k]
                 hits == r.issues.hits
                 alerts == r.commit_alerts
                 mine == PoolOf(r)
             IN /\ Len(hits) <= 80
                /\ Len(alerts) <= 40
                /\ r.issues.total <= 120
                /\ r.issues.total >= Len(hits)
                /\ Len(mine) = Len(hits) + Len(alerts)
                /\ Len(mine) <= 120
                /\ \A i \in 1..Len(hits) :
                     mine[i].type = "code_issue" /\ mine[i].item = hits[i]
                /\ \A i \in 1..Len(alerts) :
                     /\ mine[Len(hits) + i].type = "commit_alert"
                     /\ mine[Len(hits) + i].item = alerts[i]
        /\ \A i \in 1..Len(call_result.search_pool) :
             \E k \in 1..Len(call_result.repos) :
                 call_result.repos[k].path = call_result.search_pool[i].path

\* A dashboard has a repository in which more than 120 issue lines and more
\* than 80 alerts were found: its total is 120, it has 80 issue entries and
\* 40 alerts, and 120 entries in the pool.
C23_Witness ==
    /\ ScanDone
    /\ \E k \in 1..Len(call_result.repos) :
         LET r == call_result.repos[k] IN
         /\ Len(call_args.seen[r.path].issue_out.out) > 120
         /\ Len(call_args.seen[r.path].alert_out) > 80
         /\ r.issues.total = 120
         /\ Len(r.issues.hits) = 80
         /\ Len(r.commit_alerts) = 40
         /\ Len(PoolOf(r)) = 120

\* The sum of a counter over the rows of the four tracks.
OverTracks(counter) ==
    call_result.track_summary["finance"][counter]
        + call_result.track_summary["engineering"][counter]
        + call_result.track_summary["soc_auto_design"][counter]
        + call_result.track_summary["family"][counter]

\* C24: in a dashboard the rows of the four tracks add up to the summary, in
\* repos, active repos, 30-day commits, 90-day commits and issues, and
\* total_repos is the length of repos: every repository is counted in one
\* row, whatever its track.
C24_RollupsPartitionSummary ==
    ScanDone =>
        /\ OverTracks("repos") = call_result.summary.total_repos
        /\ OverTracks("active_repos") = call_result.summary.active_repos_30d
        /\ OverTracks("commits_30d") = call_result.summary.total_commits_30d
        /\ OverTracks("commits_90d") = call_result.summary.total_commits_90d
        /\ OverTracks("issues") = call_result.summary.total_issue_hits
        /\ call_result.summary.total_repos = Len(call_result.repos)

\* A dashboard has a repository whose track is none of the four, with
\* commits, and a repository with issues.
C24_Witness ==
    /\ ScanDone
    /\ \E k \in 1..Len(call_result.repos) :
         /\ call_result.repos[k].track \notin {"finance", "engineering", "soc_auto_design", "family"}
         /\ call_result.repos[k].last_30d > 0
    /\ call_result.summary.total_issue_hits > 0
    /\ call_result.summary.total_commits_90d > call_result.summary.total_commits_30d

\* C25: when a load_dashboard call stores the snapshot of its scan, the
\* timestamp it stores is not less than the timestamp of the snapshot it
\* replaces, and not less than the time at which its scan started.
C25_TimestampNeverBack ==
    [][\A t \in Threads :
         (/\ pc[t] = "sc_tool"
          /\ _cache_data' # _cache_data
          /\ _cache_data' = data[t])
         => /\ _cache_data # None => _cache_ts' >= _cache_ts
            /\ _cache_ts' >= began[t]]_vars

====
